---- MODULE Spec2Model ----
(***************************************************************************)
(* Model of discovery-infra/log_scrap.py: the event scraper that polls the *)
(* inventory service for clusters, downloads each cluster's events, scrubs *)
(* them and creates one document per event in the search index.            *)
(*                                                                         *)
(* Python strings that the code manipulates (messages, names, ids) are     *)
(* sequences of characters, each a TLA+ string of one character (or the    *)
(* code point, as "U+000B", of a character TLA+ cannot write); labels that *)
(* the code only passes around are TLA+ strings.                           *)
(***************************************************************************)
EXTENDS Integers, Sequences, FiniteSets, TLC

(***************************************************************************)
(* Bounds of the model.                                                    *)
(***************************************************************************)
\* log_scrap.py:28 sets MAX_EVENTS = 1000; the model scales it down so that
\* a fetched list longer than MAX_EVENTS is reachable.
MAX_EVENTS == 2
\* longest event list the inventory holds for cluster A, and for cluster B
MaxFetched == MAX_EVENTS + 1
MaxFetchedB == 1

(***************************************************************************)
(* String literals.                                                        *)
(***************************************************************************)
S_Name == <<"N","a","m","e">>
S_UUID == <<"U","U","I","D">>
S_HostSp == <<"H","o","s","t"," ">>
HexDigits == {"a","b","c","d","e","f","0","1","2","3","4","5","6","7","8","9"}
VariantDigits == {"8","9","a","b"}
\* The characters that \S of a str pattern rejects (str.isspace).  A character
\* that a TLA+ string cannot hold is written as its code point, "U+000B".
Whitespace ==
    {" ", "\t", "\n", "\r", "\f", "U+000B", "U+001C", "U+001D", "U+001E",
     "U+001F", "U+0085", "U+00A0", "U+1680", "U+2000", "U+2001", "U+2002",
     "U+2003", "U+2004", "U+2005", "U+2006", "U+2007", "U+2008", "U+2009",
     "U+200A", "U+2028", "U+2029", "U+202F", "U+205F", "U+3000"}

MsgHostFailed == <<"H","o","s","t"," ","a","b","c","1","2","3",":"," ","s","o","m","e","t","h","i","n","g"," ","f","a","i","l","e","d"," ","f","o","r"," ","n","o","d","e","-","1">>
MsgHostUuid == <<"H","o","s","t"," ","1","2","3","e","4","5","6","7","-","e","8","9","b","-","4","2","d","3","-","a","4","5","6","-","4","2","6","6","1","4","1","7","4","0","0","0",":"," ","u","p">>
MsgSkip == <<"s","k","i","p">>
NodeName == <<"n","o","d","e","-","1">>
HostA456 == <<"a","4","5","6">>
HostWord == <<"H","o","s","t">>
\* An event time and a message for which the md5 digests of
\* event_time + "A" + message and event_time + "E" + message are equal.
CollisionTime == <<"T","E","X","T","C","O","L","L","B","Y","f","G","i","J","U","E","T","H","Q","4","h">>
CollisionMessage == <<"c","K","S","M","d","5","z","Y","p","g","q","f","1","Y","R","D","h","k","m","x","H","k","h","P","W","p","t","r","k","o","y","z","2","8","w","n","I","9","V","0","a","H","e","A","u","a","K","n","a","k">>

\* results of get_no_name_message in log_scrap.py, and the result claimed for C7
NoNameClaimed == <<"s","o","m","e","t","h","i","n","g"," ","f","a","i","l","e","d"," ","f","o","r"," ","N","a","m","e">>
NoNameFailedA == <<" ","s","o","m","e","t","h","i","n","g"," ","f","a","i","l","e","d"," ","f","o","r"," ","N","a","m","e">>
NoNameUuidA == <<" ","u","p">>
NoNameFailedB == <<"N","a","m","e"," ","a","b","c","1","2","3",":"," ","s","o","m","e","t","h","i","n","g"," ","f","a","i","l","e","d"," ","f","o","r"," ","n","o","d","e","-","1">>
NoNameUuidB == <<"N","a","m","e"," ","1","2","3","e","4","5","6","7","-","e","8","9","b","-","4","2","d","3","-","N","a","m","e","-","4","2","6","6","1","4","1","7","4","0","0","0",":"," ","u","p">>

(***************************************************************************)
(* str.replace(old, new): every non-overlapping occurrence, left to right. *)
(* An empty `old` matches before every character and at the end.           *)
(***************************************************************************)
Min(S) == CHOOSE x \in S : \A y \in S : x <= y
Max(S) == CHOOSE x \in S : \A y \in S : y <= x

Interleave(s, new) ==
    LET n == Len(new)
    IN  [q \in 1..(Len(s) * (n + 1) + n) |->
            IF (q - 1) % (n + 1) < n
            THEN new[((q - 1) % (n + 1)) + 1]
            ELSE s[((q - 1) \div (n + 1)) + 1]]

\* start indexes of the occurrences of old in s
Occurrences(s, old) ==
    {p \in 1..(Len(s) - Len(old) + 1) : SubSeq(s, p, p + Len(old) - 1) = old}

RECURSIVE ReplaceNonEmpty(_, _, _)
ReplaceNonEmpty(s, old, new) ==
    LET occ == Occurrences(s, old)
    IN  IF occ = {} THEN s
        ELSE LET p == Min(occ)
             IN  SubSeq(s, 1, p - 1) \o new
                 \o ReplaceNonEmpty(SubSeq(s, p + Len(old), Len(s)), old, new)

Replace(s, old, new) ==
    IF old = <<>> THEN Interleave(s, new) ELSE ReplaceNonEmpty(s, old, new)

(***************************************************************************)
(* UUID_REGEX: five groups of [a-f0-9] of lengths 8, 4, 4, 4 and 12, the   *)
(* third starting with the literal 4 and the fourth with one of [89ab],    *)
(* each of the four separators an optional hyphen.                         *)
(***************************************************************************)
Rep(tok, n) == [j \in 1..n |-> tok]

\* "h" is [a-f0-9], "-" the hyphen, "4" the version nibble, "v" is [89ab];
\* hy[j] tells whether the j-th optional hyphen is taken
UUID_REGEX(hy) ==
    LET Hyphen(j) == IF hy[j] THEN <<"-">> ELSE <<>>
    IN  Rep("h", 8) \o Hyphen(1) \o Rep("h", 4) \o Hyphen(2) \o <<"4">>
        \o Rep("h", 3) \o Hyphen(3) \o <<"v">> \o Rep("h", 3) \o Hyphen(4)
        \o Rep("h", 12)

TokenMatches(tok, ch) ==
    IF tok = "h" THEN ch \in HexDigits
    ELSE IF tok = "v" THEN ch \in VariantDigits
    ELSE ch = tok

\* the sixteen hyphenations of UUID_REGEX
UuidPatterns == {UUID_REGEX(hy) : hy \in [1..4 -> BOOLEAN]}

\* the lengths of the matches of UUID_REGEX that start at index p of s
UuidMatchLengths(s, p) ==
    {Len(pat) : pat \in
        {q \in UuidPatterns :
            /\ p + Len(q) - 1 <= Len(s)
            /\ \A j \in 1..Len(q) : TokenMatches(q[j], s[p + j - 1])}}

\* re.sub(UUID_REGEX, "UUID", s): leftmost match first, matches do not overlap
RECURSIVE SubUUID(_)
SubUUID(s) ==
    LET starts == {p \in 1..Len(s) : UuidMatchLengths(s, p) # {}}
    IN  IF starts = {} THEN s
        ELSE LET p == Min(starts)
                 \* a hyphen is no hex digit, so at most one length matches
                 m == Max(UuidMatchLengths(s, p))
             IN  SubSeq(s, 1, p - 1) \o S_UUID
                 \o SubUUID(SubSeq(s, p + m, Len(s)))

\* re.sub(r"^Host \S+:", "", s): \S+ is greedy, so the match ends at the last
\* ':' of the token after "Host " that has at least one character before it.
StripHostPrefix(s) ==
    IF Len(s) < 5 \/ SubSeq(s, 1, 5) # S_HostSp THEN s
    ELSE LET \* first index after the run of non-whitespace that starts at 6
             stop == Min({p \in 6..(Len(s) + 1) :
                             p > Len(s) \/ s[p] \in Whitespace})
             ends == {e \in 7..(stop - 1) : s[e] = ":"}
         IN  IF ends = {} THEN s
             ELSE SubSeq(s, Max(ends) + 1, Len(s))

RECURSIVE ReplaceNames(_, _)
ReplaceNames(event_message, event_names) ==
    IF event_names = <<>> THEN event_message
    ELSE ReplaceNames(Replace(event_message, Head(event_names), S_Name),
                      Tail(event_names))

\* faulty variant of get_no_name_message: UUIDs are replaced before names
get_no_name_message_uuid_first(event_message, event_names) ==
    StripHostPrefix(ReplaceNames(SubUUID(event_message), event_names))

get_no_name_message(event_message, event_names) ==
    StripHostPrefix(SubUUID(ReplaceNames(event_message, event_names)))

(***************************************************************************)
(* hashlib.md5 (RFC 1321) over the UTF-8 bytes of a string, and the        *)
(* decimal rendering of the digest.  A 32-bit word is a pair <<high, low>> *)
(* of 16-bit halves.  Operands are bound to their values by a singleton    *)
(* set ({e : v \in {x}}) wherever an operator uses one more than once.     *)
(***************************************************************************)
\* the element of a singleton set
The(singleton) == CHOOSE v \in singleton : TRUE
\* the characters U+0020..U+007E in code order (U+0060 by its name)
AsciiPrintable ==
    <<" ", "!", "\"", "#", "$", "%", "&", "'", "(", ")", "*", "+",
     ",", "-", ".", "/", "0", "1", "2", "3", "4", "5", "6", "7",
     "8", "9", ":", ";", "<", "=", ">", "?", "@", "A", "B", "C",
     "D", "E", "F", "G", "H", "I", "J", "K", "L", "M", "N", "O",
     "P", "Q", "R", "S", "T", "U", "V", "W", "X", "Y", "Z", "[",
     "\\", "]", "^", "_", "U+0060", "a", "b", "c", "d", "e", "f", "g",
     "h", "i", "j", "k", "l", "m", "n", "o", "p", "q", "r", "s",
     "t", "u", "v", "w", "x", "y", "z", "{", "|", "}", "~">>

\* the characters written by the name of their code point
NamedCodePoints ==
    {<<"U+000B", 11>>, <<"U+001C", 28>>, <<"U+001D", 29>>, <<"U+001E", 30>>,
     <<"U+001F", 31>>, <<"U+0085", 133>>, <<"U+00A0", 160>>, <<"U+1680", 5760>>,
     <<"U+2000", 8192>>, <<"U+2001", 8193>>, <<"U+2002", 8194>>, <<"U+2003", 8195>>,
     <<"U+2004", 8196>>, <<"U+2005", 8197>>, <<"U+2006", 8198>>, <<"U+2007", 8199>>,
     <<"U+2008", 8200>>, <<"U+2009", 8201>>, <<"U+200A", 8202>>, <<"U+2028", 8232>>,
     <<"U+2029", 8233>>, <<"U+202F", 8239>>, <<"U+205F", 8287>>, <<"U+3000", 12288>>}

\* ord(ch)
CodePoint(ch) ==
    IF ch = "\t" THEN 9
    ELSE IF ch = "\n" THEN 10
    ELSE IF ch = "\f" THEN 12
    ELSE IF ch = "\r" THEN 13
    ELSE IF \E n \in NamedCodePoints : n[1] = ch
    THEN (CHOOSE n \in NamedCodePoints : n[1] = ch)[2]
    ELSE 31 + (CHOOSE j \in 1..Len(AsciiPrintable) : AsciiPrintable[j] = ch)

\* ch.encode('utf-8') for a character of the basic multilingual plane
Utf8(ch) ==
    LET cp == CodePoint(ch)
    IN  IF cp < 128 THEN <<cp>>
        ELSE IF cp < 2048 THEN <<192 + (cp \div 64), 128 + (cp % 64)>>
        ELSE <<224 + (cp \div 4096), 128 + ((cp \div 64) % 64), 128 + (cp % 64)>>

\* the bytes of the characters str[lo..hi]
RECURSIVE EncodeRange(_, _, _)
EncodeRange(str, lo, hi) ==
    The({IF l > h THEN <<>>
         ELSE IF l = h THEN Utf8(str[l])
         ELSE EncodeRange(str, l, (l + h) \div 2)
              \o EncodeRange(str, ((l + h) \div 2) + 1, h) :
         l \in {lo}, h \in {hi}})

\* str.encode('utf-8')
Encode(str) == The({EncodeRange(s, 1, Len(s)) : s \in {str}})

Bit(n, b) == (n \div (2 ^ b)) % 2

Sum16(f) ==
    f[0] + 2 * f[1] + 4 * f[2] + 8 * f[3] + 16 * f[4] + 32 * f[5] + 64 * f[6]
    + 128 * f[7] + 256 * f[8] + 512 * f[9] + 1024 * f[10] + 2048 * f[11]
    + 4096 * f[12] + 8192 * f[13] + 16384 * f[14] + 32768 * f[15]

And16(a, b) ==
    The({Sum16([j \in 0..15 |-> Bit(u, j) * Bit(v, j)]) : u \in {a}, v \in {b}})
Or16(a, b) ==
    The({Sum16([j \in 0..15 |-> Bit(u, j) + Bit(v, j) - Bit(u, j) * Bit(v, j)]) :
         u \in {a}, v \in {b}})
Xor16(a, b) ==
    The({Sum16([j \in 0..15 |-> (Bit(u, j) + Bit(v, j)) % 2]) : u \in {a}, v \in {b}})

WAnd(x, y) == The({<<And16(u[1], v[1]), And16(u[2], v[2])>> : u \in {x}, v \in {y}})
WOr(x, y) == The({<<Or16(u[1], v[1]), Or16(u[2], v[2])>> : u \in {x}, v \in {y}})
WXor(x, y) == The({<<Xor16(u[1], v[1]), Xor16(u[2], v[2])>> : u \in {x}, v \in {y}})
WNot(x) == The({<<65535 - u[1], 65535 - u[2]>> : u \in {x}})

\* addition modulo 2^32
WAdd(x, y) ==
    The({<<(u[1] + v[1] + ((u[2] + v[2]) \div 65536)) % 65536,
           (u[2] + v[2]) % 65536>> : u \in {x}, v \in {y}})

\* rotation to the left by s bits, 0 < s < 32
WRotl(x, s) ==
    The({<<((u[1] * (2 ^ r)) % 65536) + (u[2] \div (2 ^ (16 - r))),
           ((u[2] * (2 ^ r)) % 65536) + (u[1] \div (2 ^ (16 - r)))>> :
         u \in {IF s >= 16 THEN <<x[2], x[1]>> ELSE x}, r \in {s % 16}})

Md5K ==
    <<<<55146, 42104>>, <<59591, 46934>>, <<9248, 28891>>, <<49597, 52974>>,
      <<62844, 4015>>, <<18311, 50730>>, <<43056, 17939>>, <<64838, 38145>>,
      <<27008, 39128>>, <<35652, 63407>>, <<65535, 23473>>, <<35164, 55230>>,
      <<27536, 4386>>, <<64920, 29075>>, <<42617, 17294>>, <<18868, 2081>>,
      <<63006, 9570>>, <<49216, 45888>>, <<9822, 23121>>, <<59830, 51114>>,
      <<54831, 4189>>, <<580, 5203>>, <<55457, 59009>>, <<59347, 64456>>,
      <<8673, 52710>>, <<49975, 2006>>, <<62677, 3463>>, <<17754, 5357>>,
      <<43491, 59653>>, <<64751, 41976>>, <<26479, 729>>, <<36138, 19594>>,
      <<65530, 14658>>, <<34673, 63105>>, <<28061, 24866>>, <<64997, 14348>>,
      <<42174, 59972>>, <<19422, 53161>>, <<63163, 19296>>, <<48831, 48240>>,
      <<10395, 32454>>, <<60065, 10234>>, <<54511, 12421>>, <<1160, 7429>>,
      <<55764, 53305>>, <<59099, 39397>>, <<8098, 31992>>, <<50348, 22117>>,
      <<62505, 8772>>, <<17194, 65431>>, <<43924, 9127>>, <<64659, 41017>>,
      <<25947, 22979>>, <<36620, 52370>>, <<65519, 62589>>, <<34180, 24017>>,
      <<28584, 32335>>, <<65068, 59104>>, <<41729, 17172>>, <<19976, 4513>>,
      <<63315, 32386>>, <<48442, 62005>>, <<10967, 53947>>, <<60294, 54161>>>>

Md5S ==
    <<7, 12, 17, 22, 7, 12, 17, 22, 7, 12, 17, 22, 7, 12, 17, 22,
      5, 9, 14, 20, 5, 9, 14, 20, 5, 9, 14, 20, 5, 9, 14, 20,
      4, 11, 16, 23, 4, 11, 16, 23, 4, 11, 16, 23, 4, 11, 16, 23,
      6, 10, 15, 21, 6, 10, 15, 21, 6, 10, 15, 21, 6, 10, 15, 21>>

Md5Init ==
    [a |-> <<26437, 8961>>, b |-> <<61389, 43913>>,
     c |-> <<39098, 56574>>, d |-> <<4146, 21622>>]

\* the message with the padding bit, the zeros and the length in bits
Md5Pad(bytes) ==
    The({m[1] \o <<128>> \o [j \in 1..((119 - (Len(m[1]) % 64)) % 64) |-> 0]
         \o <<m[2] % 256, (m[2] \div 256) % 256, (m[2] \div 65536) % 256,
              (m[2] \div 16777216) % 256, 0, 0, 0, 0>> :
         m \in {<<b, 8 * Len(b)>> : b \in {bytes}}})

\* word g (0..15) of block blk (0..), little-endian
Md5Word(padded, blk, g) ==
    The({<<padded[o + 4] * 256 + padded[o + 3],
           padded[o + 2] * 256 + padded[o + 1]>> : o \in {64 * blk + 4 * g}})

\* round j (0..63) of the compression of block blk
Md5Round(st, padded, blk, j) ==
    LET f == IF j < 16 THEN WOr(WAnd(st.b, st.c), WAnd(WNot(st.b), st.d))
             ELSE IF j < 32 THEN WOr(WAnd(st.d, st.b), WAnd(WNot(st.d), st.c))
             ELSE IF j < 48 THEN WXor(st.b, WXor(st.c, st.d))
             ELSE WXor(st.c, WOr(st.b, WNot(st.d)))
        g == IF j < 16 THEN j
             ELSE IF j < 32 THEN (5 * j + 1) % 16
             ELSE IF j < 48 THEN (3 * j + 5) % 16
             ELSE (7 * j) % 16
        t == WAdd(WAdd(f, st.a), WAdd(Md5K[j + 1], Md5Word(padded, blk, g)))
    IN  [a |-> st.d, d |-> st.c, c |-> st.b,
         b |-> WAdd(st.b, WRotl(t, Md5S[j + 1]))]

\* rounds lo..hi in turn, the first half before the second
RECURSIVE Md5Rounds(_, _, _, _, _)
Md5Rounds(st, padded, blk, lo, hi) ==
    IF lo = hi THEN Md5Round(st, padded, blk, lo)
    ELSE The({Md5Rounds(half, padded, blk, mid + 1, hi) :
              half \in {Md5Rounds(st, padded, blk, lo, mid) : mid \in {(lo + hi) \div 2}},
              mid \in {(lo + hi) \div 2}})

\* blocks blk.. of the padded message
RECURSIVE Md5Blocks(_, _, _)
Md5Blocks(st, padded, blk) ==
    IF 64 * blk >= Len(padded) THEN st
    ELSE The({Md5Blocks(nxt, padded, n) :
              nxt \in {[a |-> WAdd(st.a, r.a), b |-> WAdd(st.b, r.b),
                        c |-> WAdd(st.c, r.c), d |-> WAdd(st.d, r.d)] :
                       r \in {Md5Rounds(st, padded, blk, 0, 63)}},
              n \in {blk + 1}})

\* the four bytes of a word, least significant first
WBytes(x) ==
    The({<<u[2] % 256, u[2] \div 256, u[1] % 256, u[1] \div 256>> : u \in {x}})

\* hashlib.md5(bytes).digest(): sixteen bytes
md5(bytes) ==
    The({WBytes(st.a) \o WBytes(st.b) \o WBytes(st.c) \o WBytes(st.d) :
         st \in {Md5Blocks(Md5Init, padded, 0) : padded \in {Md5Pad(bytes)}}})

\* the digest as eight 16-bit limbs, most significant first
Limbs(bytes) ==
    The({[j \in 1..(Len(b) \div 2) |-> b[2 * j - 1] * 256 + b[2 * j]] : b \in {bytes}})

\* long division of the limbs j.. by 10000 with the remainder r carried in:
\* the quotient's limbs and the final remainder
RECURSIVE DivLimbs(_, _, _)
DivLimbs(limbs, j, r) ==
    IF j > Len(limbs) THEN [quot |-> <<>>, rem |-> r]
    ELSE The({[quot |-> <<n \div 10000>> \o d.quot, rem |-> d.rem] :
              d \in {DivLimbs(limbs, j + 1, n % 10000) :
                        n \in {r * 65536 + limbs[j]}},
              n \in {r * 65536 + limbs[j]}})

\* the base-10000 digits of the number, most significant first
RECURSIVE Base10000(_)
Base10000(limbs) ==
    IF \A j \in 1..Len(limbs) : limbs[j] = 0 THEN <<>>
    ELSE The({Append(Base10000(d.quot), d.rem) : d \in {DivLimbs(limbs, 1, 0)}})

DecimalDigits == <<"0", "1", "2", "3", "4", "5", "6", "7", "8", "9">>

\* the decimal digits of n < 10000: all four, or without leading zeros
FourDigits(n) ==
    <<DecimalDigits[(n \div 1000) + 1], DecimalDigits[((n \div 100) % 10) + 1],
      DecimalDigits[((n \div 10) % 10) + 1], DecimalDigits[(n % 10) + 1]>>

LeadingDigits(n) ==
    SubSeq(FourDigits(n),
           IF n >= 1000 THEN 1 ELSE IF n >= 100 THEN 2 ELSE IF n >= 10 THEN 3 ELSE 4,
           4)

\* str(int(hexdigest, 16)) for the digest's bytes
IntStr(bytes) ==
    The({IF c = <<>> THEN <<"0">>
         ELSE LeadingDigits(c[1])
              \o [j \in 1..(4 * (Len(c) - 1)) |->
                     FourDigits(c[2 + ((j - 1) \div 4)])[1 + ((j - 1) % 4)]] :
         c \in {Base10000(l) : l \in {Limbs(bytes)}}})

(***************************************************************************)
(* The inventory service: two clusters and the events they emit.           *)
(***************************************************************************)
ClusterA ==
    [id |-> <<"A">>, name |-> NodeName, hosts |-> <<[id |-> "h0"]>>]
ClusterB ==
    [id |-> <<"E">>, name |-> HostWord,
     hosts |-> <<[id |-> "h1", requested_hostname |-> HostA456],
                 [id |-> "h2"],
                 [id |-> "h3", requested_hostname |-> <<>>]>>]
ClusterIds == {ClusterA.id, ClusterB.id}

\* what get_all_clusters may return
InventoryClusterLists == {<<>>, <<ClusterA>>, <<ClusterA, ClusterB>>}

\* what get_versions may return
Versions == {[release_tag |-> "v1", severity |-> "n/a"]}

Digits == <<"1","2","3","4","5","6","7","8","9">>
EventTime(p) == <<"T", Digits[p]>>

\* The fields of an event besides cluster_id; host_id is optional, and
\* event_time is the time of the event's position unless given here.
EventTemplates ==
    <<[message |-> MsgSkip, severity |-> "info"],
      [message |-> MsgHostUuid, severity |-> "info"],
      [message |-> MsgHostFailed, severity |-> "error", host_id |-> "h1"],
      [message |-> CollisionMessage, severity |-> "info",
       event_time |-> CollisionTime]>>

\* The events a cluster emits follow one of the timelines, fixed by
\* `scenario`: the templates of the timeline in turn.  In the last timeline
\* both clusters emit the event of CollisionTime and CollisionMessage.
Timelines == <<<<2, 3, 1>>, <<4, 1, 2>>>>
Scenarios == 0..(Len(Timelines) - 1)
TemplateAt(sc, cluster_id, p) ==
    EventTemplates[Timelines[sc + 1][((p - 1) % 3) + 1]]

NewEvent(cluster_id, p, tpl) ==
    tpl @@ [event_time |-> EventTime(p), cluster_id |-> cluster_id]

MaxFetchedOf(cluster_id) ==
    IF cluster_id = ClusterA.id THEN MaxFetched ELSE MaxFetchedB

\* the strings that get_doc_id hashes for the events of the timelines
TimelineIdStrings ==
    {e.event_time \o e.cluster_id \o e.message :
        e \in {NewEvent(c, p, TemplateAt(sc, c, p)) :
                  sc \in Scenarios, c \in ClusterIds, p \in 1..MaxFetched}}

(***************************************************************************)
(* Helpers of log_scrap.py.                                                *)
(***************************************************************************)
\* dict.update: the entries of `other` win
Update(d, other) == other @@ d

\* random.shuffle(clusters): the list under any permutation of its indexes
Shuffles(l) ==
    LET perms == {p \in [1..Len(l) -> 1..Len(l)] :
                     \A a, b \in 1..Len(l) : a # b => p[a] # p[b]}
    IN  {[j \in 1..Len(l) |-> l[p[j]]] : p \in perms}

\* faulty variant of Truncate: event_list[-MAX_EVENTS:]
TruncateTail(event_list) ==
    IF Len(event_list) > MAX_EVENTS
    THEN SubSeq(event_list, Len(event_list) - MAX_EVENTS + 1, Len(event_list))
    ELSE event_list

\* event_list[:MAX_EVENTS] when the list is longer than MAX_EVENTS
Truncate(event_list) ==
    IF Len(event_list) > MAX_EVENTS
    THEN SubSeq(event_list, 1, MAX_EVENTS)
    ELSE event_list

get_metadata_json(cluster, versions) ==
    Update([cluster |-> cluster], versions)

\* monitoring.process.GetProcessedMetadataJson: keeps cluster.hosts and
\* cluster.name available to get_cluster_object_names
process_metadata(metadata_json) == metadata_json

\* monitoring.process.is_event_skippable
is_event_skippable(event) == event.message = MsgSkip

RECURSIVE HostNames(_)
HostNames(hosts) ==
    IF hosts = <<>> THEN <<>>
    ELSE LET host == Head(hosts)
             named == "requested_hostname" \in DOMAIN host
                      /\ host.requested_hostname # <<>>
         IN  (IF named THEN <<host.requested_hostname>> ELSE <<>>)
             \o HostNames(Tail(hosts))

get_cluster_object_names(cluster_bash_data) ==
    Append(HostNames(cluster_bash_data.cluster.hosts),
           cluster_bash_data.cluster.name)

\* The digests of TimelineIdStrings, computed once.
Md5OfTimelines == {<<s, IntStr(md5(Encode(s)))>> : s \in TimelineIdStrings}

\* str(int(hashlib.md5(id_str.encode('utf-8')).hexdigest(), 16))
Md5Decimal(id_str) ==
    The({IF s \in TimelineIdStrings
         THEN (CHOOSE m \in Md5OfTimelines : m[1] = s)[2]
         ELSE IntStr(md5(Encode(s))) : s \in {id_str}})

get_doc_id(event_json) ==
    Md5Decimal(event_json.event_time \o event_json.cluster_id \o event_json.message)

process_event_doc(event_data, cluster_bash_data) ==
    Update(cluster_bash_data, event_data)

\* A file of a backup directory: absent, holding the JSON text of a value, or
\* holding a fragment (open(..., "w") emptied it and json.dump did not finish).
AbsentFile == [text |-> "absent", value |-> <<>>]
JsonFile(value) == [text |-> "json", value |-> value]
TruncatedFile == [text |-> "truncated", value |-> <<>>]

\* faulty variant of save_new_backup: an existing backup is kept
save_backup_if_absent(bk, cluster_id, event_list, metadata_json) ==
    IF bk[cluster_id].present THEN bk
    ELSE [bk EXCEPT ![cluster_id] =
            [present |-> TRUE, events |-> JsonFile(event_list),
             metadata |-> JsonFile(metadata_json)]]

\* cluster_<id>/ (present: the directory exists), events.json, metadata.json
save_new_backup(bk, cluster_id, event_list, metadata_json) ==
    [bk EXCEPT ![cluster_id] =
        [present |-> TRUE, events |-> JsonFile(event_list),
         metadata |-> JsonFile(metadata_json)]]

\* the statements of save_new_backup that may raise
BackupStages ==
    {"makedirs", "open_events", "dump_events", "open_metadata", "dump_metadata"}

\* what save_new_backup leaves behind when the statement `stage` raises
save_new_backup_raises(bk, cluster_id, event_list, stage) ==
    LET old == bk[cluster_id]
    IN  [bk EXCEPT ![cluster_id] =
            IF stage = "makedirs" THEN old
            ELSE IF stage = "open_events"
            THEN [old EXCEPT !.present = TRUE]
            ELSE IF stage = "dump_events"
            THEN [old EXCEPT !.present = TRUE, !.events = TruncatedFile]
            ELSE IF stage = "open_metadata"
            THEN [old EXCEPT !.present = TRUE, !.events = JsonFile(event_list)]
            ELSE [present |-> TRUE, events |-> JsonFile(event_list),
                  metadata |-> TruncatedFile]]

StoreIds(es) == {r.id : r \in es}

\* faulty variant of es_create: Elasticsearch.index, which overwrites
es_index(es, body, id_) ==
    [raised |-> "none",
     es |-> {r \in es : r.id # id_} \cup {[id |-> id_, source |-> body]}]

\* Elasticsearch.create: refuses an id that is already in the index
es_create(es, body, id_) ==
    IF id_ \in StoreIds(es)
    THEN [raised |-> "ConflictError", es |-> es]
    ELSE [raised |-> "none", es |-> es \cup {[id |-> id_, source |-> body]}]

log_doc(es, doc, id_) ==
    LET res == es_create(es, doc, id_)
    IN  IF res.raised = "ConflictError"
        THEN [ret |-> "None", es |-> res.es]
        ELSE [ret |-> "created", es |-> res.es]

\* faulty variant of NextIndex: the loop never breaks
NextIndexNoBreak(ret, k) == k - 1

\* `if not ret: break`: the index of the next event to visit, 0 ends the loop
NextIndex(ret, k) == IF ret = "None" THEN 0 ELSE k - 1

(***************************************************************************)
(* State.                                                                  *)
(***************************************************************************)
VARIABLES
    pc,                 \* position of main / run_service / elastefy_events
    client,             \* "none", "fresh" (just constructed) or "used"
    backup_destination, \* TRUE when --backup-destination is given
    clusters,           \* run_service: the shuffled cluster list
    i,                  \* run_service: index of the cluster in process
    suppressed,         \* write_events_file suppressed an ApiException
    fetched,            \* process_cluster: event_list as loaded
    event_list,         \* elastefy_events: event_list after truncation
    metadata_json,      \* elastefy_events
    cluster_bash_data,  \* elastefy_events: the dict every event is merged into
    event_names,        \* elastefy_events
    k,                  \* elastefy_events: index of the next event, newest first
    last,               \* the last call of log_doc in this elastefy_events
    raised,             \* the call of main's try block whose exception is on
                        \* its way to the handler
    store,              \* the documents of the index
    backup,             \* the backup directory of each cluster
    inventory,          \* the events the inventory holds for each cluster
    scenario            \* which timeline the clusters' events follow

vars == <<pc, client, backup_destination, clusters, i, suppressed, fetched, event_list, metadata_json, cluster_bash_data,
          event_names, k, last, raised, store, backup, inventory, scenario>>

locals == <<suppressed, fetched, event_list, metadata_json,
            cluster_bash_data, event_names, k, last>>

NoCall == [op |-> "none"]
NoBackup == [present |-> FALSE, events |-> AbsentFile, metadata |-> AbsentFile]

ResetLocals ==
    /\ suppressed' = FALSE
    /\ fetched' = <<>>
    /\ event_list' = <<>>
    /\ metadata_json' = <<>>
    /\ cluster_bash_data' = <<>>
    /\ event_names' = <<>>
    /\ k' = 0
    /\ last' = NoCall

Init ==
    /\ pc = "construct"
    /\ client = "none"
    /\ backup_destination \in BOOLEAN
    /\ clusters = <<>>
    /\ i = 0
    /\ suppressed = FALSE
    /\ fetched = <<>>
    /\ event_list = <<>>
    /\ metadata_json = <<>>
    /\ cluster_bash_data = <<>>
    /\ event_names = <<>>
    /\ k = 0
    /\ last = NoCall
    /\ raised = "none"
    /\ store = {}
    /\ backup = [c \in ClusterIds |-> NoBackup]
    /\ inventory = [c \in ClusterIds |-> <<>>]
    /\ scenario \in Scenarios

(***************************************************************************)
(* main: ScrapeEvents(...) inside the try block.                           *)
(***************************************************************************)
Construct ==
    /\ pc = "construct"
    /\ pc' = "get_clusters"
    /\ client' = "fresh"
    /\ UNCHANGED <<backup_destination, clusters, i, locals, raised, store,
                   backup, inventory, scenario>>

ConstructRaise ==
    /\ pc = "construct"
    /\ pc' = "handler"
    /\ raised' = "construct"
    /\ UNCHANGED <<client, backup_destination, clusters, i, locals, store,
                   backup, inventory, scenario>>

\* run_service: after the last cluster of the list the while loop fetches again
AfterCluster ==
    IF i < Len(clusters)
    THEN pc' = "process_cluster" /\ i' = i + 1
    ELSE pc' = "get_clusters" /\ i' = 0

(***************************************************************************)
(* run_service: get_clusters, shuffle, the empty-list branch.              *)
(***************************************************************************)
GetClusters ==
    /\ pc = "get_clusters"
    /\ \E l \in InventoryClusterLists : \E s \in Shuffles(l) :
        /\ clusters' = s
        /\ IF s = <<>>
           THEN pc' = "sleep_break" /\ i' = 0
           ELSE pc' = "process_cluster" /\ i' = 1
    /\ client' = "used"
    /\ ResetLocals
    /\ UNCHANGED <<backup_destination, raised, store, backup, inventory, scenario>>

GetClustersRaise ==
    /\ pc = "get_clusters"
    /\ pc' = "handler"
    /\ raised' = "run_service"
    /\ client' = "used"
    \* the frame of run_service is unwound
    /\ ResetLocals
    /\ clusters' = <<>>
    /\ i' = 0
    /\ UNCHANGED <<backup_destination, store, backup, inventory, scenario>>

\* faulty variant of SleepBreak: `continue`, the scan loop fetches again
SleepContinue ==
    /\ pc = "sleep_break"
    /\ pc' = "get_clusters"
    /\ UNCHANGED <<client, backup_destination, clusters, i, locals, raised,
                   store, backup, inventory, scenario>>

\* time.sleep(RETRY_INTERVAL); break: run_service returns to main's loop
SleepBreak ==
    /\ pc = "sleep_break"
    /\ pc' = "construct"
    /\ UNCHANGED <<client, backup_destination, clusters, i, locals, raised,
                   store, backup, inventory, scenario>>

(***************************************************************************)
(* process_cluster up to the loop of elastefy_events: write_events_file,   *)
(* json.load of the temporary file, truncation, metadata, backup, names.   *)
(***************************************************************************)
\* The events the inventory may hold for a cluster by the time of a download:
\* what it held at the cluster's previous download, and the events recorded
\* since then, each after its timeline.
Extend(cluster_id, n) ==
    [p \in 1..n |->
        IF p <= Len(inventory[cluster_id])
        THEN inventory[cluster_id][p]
        ELSE NewEvent(cluster_id, p, TemplateAt(scenario, cluster_id, p))]

Downloads(cluster_id) ==
    {Extend(cluster_id, n) :
        n \in Len(inventory[cluster_id])..MaxFetchedOf(cluster_id)}

\* write_events_file: suppress(ApiException) leaves the temporary file empty
write_events_file(outcome, events) ==
    IF outcome = "ApiException"
    THEN [text |-> "empty", value |-> <<>>]
    ELSE [text |-> "json", value |-> events]

ProcessCluster ==
    /\ pc = "process_cluster"
    /\ \E outcome \in {"ok", "ApiException"} : \E versions \in Versions :
       \E events \in (IF outcome = "ok" THEN Downloads(clusters[i].id) ELSE {<<>>}) :
        LET cluster == clusters[i]
            temp_event_file == write_events_file(outcome, events)
            el == Truncate(temp_event_file.value)
            md == get_metadata_json(cluster, versions)
            cbd == process_metadata(md)
        IN  /\ suppressed' = (outcome = "ApiException")
            /\ IF temp_event_file.text = "json"
               THEN /\ inventory' = [inventory EXCEPT ![cluster.id] = events]
                    /\ fetched' = temp_event_file.value
                    /\ event_list' = el
                    /\ metadata_json' = md
                    /\ backup' = IF backup_destination
                                 THEN save_new_backup(backup, cluster.id, el, md)
                                 ELSE backup
                    /\ cluster_bash_data' = cbd
                    /\ event_names' = get_cluster_object_names(cbd)
                    /\ k' = Len(el)
                    /\ raised' = raised
                    /\ clusters' = clusters
                    /\ IF el = <<>>
                       THEN AfterCluster
                       ELSE pc' = "loop" /\ i' = i
               ELSE \* json.load of an empty file raises JSONDecodeError; the
                    \* frame is unwound, `suppressed` records the cause
                    /\ fetched' = <<>>
                    /\ event_list' = <<>>
                    /\ metadata_json' = <<>>
                    /\ cluster_bash_data' = <<>>
                    /\ event_names' = <<>>
                    /\ k' = 0
                    /\ raised' = "run_service"
                    /\ pc' = "handler"
                    /\ clusters' = <<>>
                    /\ i' = 0
                    /\ UNCHANGED <<backup, inventory>>
    /\ last' = NoCall
    /\ UNCHANGED <<client, backup_destination, store, scenario>>

\* download_cluster_events raises something other than ApiException, or
\* get_versions raises, or a statement of save_new_backup raises
ProcessClusterRaise ==
    /\ pc = "process_cluster"
    /\ \E stage \in {"download", "get_versions"} \cup BackupStages :
        /\ stage \in BackupStages => backup_destination
        \* os.makedirs is called only when the directory does not exist
        /\ stage = "makedirs" => ~backup[clusters[i].id].present
        /\ raised' = "run_service"
        /\ IF stage \in {"download", "get_versions"}
           THEN \* nothing of the download is kept
                UNCHANGED <<backup, inventory>>
           ELSE \E events \in Downloads(clusters[i].id) :
                /\ inventory' = [inventory EXCEPT ![clusters[i].id] = events]
                /\ backup' = save_new_backup_raises(backup, clusters[i].id,
                                                    Truncate(events), stage)
    /\ pc' = "handler"
    \* the frames of run_service, process_cluster and elastefy_events are
    \* unwound
    /\ ResetLocals
    /\ clusters' = <<>>
    /\ i' = 0
    /\ UNCHANGED <<client, backup_destination, store, scenario>>

(***************************************************************************)
(* elastefy_events: one iteration of `for event in event_list[::-1]`.      *)
(***************************************************************************)
LogEvent ==
    /\ pc = "loop"
    /\ k >= 1
    /\ LET event == event_list[k]
       IN  IF is_event_skippable(event)
           THEN /\ k' = k - 1
                /\ IF k' = 0 THEN AfterCluster ELSE pc' = "loop" /\ i' = i
                /\ UNCHANGED <<cluster_bash_data, last, store>>
           ELSE LET doc_id == get_doc_id(event)
                    named == Update(cluster_bash_data,
                                 [no_name_message |->
                                     get_no_name_message(event.message, event_names)])
                    doc == process_event_doc(event, named)
                    res == log_doc(store, doc, doc_id)
                IN  /\ cluster_bash_data' = doc
                    /\ store' = res.es
                    /\ last' = [op |-> "create", id |-> doc_id, body |-> doc,
                                event |-> event, pos |-> k, ret |-> res.ret]
                    /\ k' = NextIndex(res.ret, k)
                    /\ IF k' = 0 THEN AfterCluster ELSE pc' = "loop" /\ i' = i
    /\ UNCHANGED <<client, backup_destination, clusters, suppressed, fetched, event_list, metadata_json, event_names,
                   raised, backup, inventory, scenario>>

\* Elasticsearch.create raises something other than ConflictError
LogEventRaise ==
    /\ pc = "loop"
    /\ k >= 1
    /\ ~is_event_skippable(event_list[k])
    /\ pc' = "handler"
    /\ raised' = "run_service"
    \* the frames of run_service, process_cluster and elastefy_events are
    \* unwound
    /\ ResetLocals
    /\ clusters' = <<>>
    /\ i' = 0
    /\ UNCHANGED <<client, backup_destination, store, backup, inventory,
                   scenario>>

(***************************************************************************)
(* main: except Exception: log.warn, time.sleep(RETRY_INTERVAL), loop.     *)
(***************************************************************************)
\* faulty variant of Handler: the exception ends the process
HandlerExits ==
    /\ pc = "handler"
    /\ pc' = "exit"
    /\ raised' = raised
    /\ ResetLocals
    /\ UNCHANGED <<client, backup_destination, clusters, i, store, backup,
                   inventory, scenario>>

Handler ==
    /\ pc = "handler"
    /\ pc' = "construct"
    /\ raised' = "none"
    /\ ResetLocals
    /\ UNCHANGED <<client, backup_destination, clusters, i, store, backup,
                   inventory, scenario>>

Next ==
    \/ Construct
    \/ ConstructRaise
    \/ GetClusters
    \/ GetClustersRaise
    \/ SleepBreak
    \/ ProcessCluster
    \/ ProcessClusterRaise
    \/ LogEvent
    \/ LogEventRaise
    \/ Handler

Spec == Init /\ [][Next]_vars

\* main is a single thread that never waits for anything but time.sleep: the
\* handler and the sleep before `break` always complete, and the call of
\* ScrapeEvents(...) always ends, by returning or by raising.  Nothing makes
\* it return rather than raise.
FairSpec ==
    /\ Spec
    /\ WF_vars(Handler)
    /\ WF_vars(SleepBreak)
    /\ WF_vars(Construct \/ ConstructRaise)

(***************************************************************************)
(* Properties.                                                             *)
(***************************************************************************)
\* a step in which log_doc was called
LogDocCalled == last' # last /\ last'.op = "create"

SameTriple(d1, d2) ==
    /\ d1.event_time = d2.event_time
    /\ d1.cluster_id = d2.cluster_id
    /\ d1.message = d2.message

\* C1: every stored document sits at the id get_doc_id derives from its
\* (event_time, cluster_id, message) triple and no two stored records share a
\* triple; documents are never removed or changed, and log_doc on an id that
\* is already stored returns None and leaves the store as it is.
C1_CreateOnly ==
    /\ [](\A r1, r2 \in store :
            /\ r1.id = get_doc_id(r1.source)
            /\ SameTriple(r1.source, r2.source) => r1 = r2)
    /\ [][/\ store \subseteq store'
          /\ (LogDocCalled /\ last'.id \in StoreIds(store))
                => (last'.ret = "None" /\ store' = store)]_vars

C1_Witness ==
    /\ last.op = "create"
    /\ last.ret = "None"
    /\ \E r \in store : r.id = last.id /\ r.source # last.body

\* C2: when log_doc reports a conflict, no exception is raised, the loop over
\* the cluster's events ends (no create for the remaining, older events) and
\* run_service goes on to the next cluster, or to the next fetch after the
\* last cluster.
C2_ConflictEndsCluster ==
    /\ [][(LogDocCalled /\ last'.ret = "None")
            => /\ pc' # "handler"
               /\ raised' = "none"
               /\ k' = 0
               /\ IF i < Len(clusters)
                  THEN pc' = "process_cluster" /\ i' = i + 1
                  ELSE pc' = "get_clusters"]_vars
    /\ [][(last.op = "create" /\ last.ret = "None")
            => (last' = last \/ last' = NoCall)]_vars

C2_Witness ==
    /\ last.op = "create"
    /\ last.ret = "None"
    /\ last.pos > 1
    /\ ~is_event_skippable(event_list[last.pos - 1])
    /\ pc = "process_cluster"
    /\ i = 2

\* C3: after write_events_file suppressed an ApiException for a cluster, no
\* exception reaches main's handler.
C3_ApiErrorSkipsCluster == suppressed => pc # "handler"

\* the service fetches clusters with a freshly constructed ScrapeEvents
FetchingFresh == pc = "get_clusters" /\ client = "fresh"

\* C4 as claimed: every exception leads to main's handler, the handler always
\* goes back to constructing ScrapeEvents, run_service starts only on a
\* freshly constructed instance, and after the handler the service eventually
\* fetches clusters again with a fresh client.
C4_AsClaimed ==
    /\ [][(raised' # raised /\ raised' # "none") => pc' = "handler"]_vars
    /\ [][pc = "handler" => pc' \in {"handler", "construct"}]_vars
    /\ [][(pc = "construct" /\ pc' = "get_clusters") => client' = "fresh"]_vars
    /\ (pc = "handler" ~> FetchingFresh)

\* C4 as amended: every exception leads to main's handler, the handler never
\* ends the process and always goes back to constructing ScrapeEvents,
\* run_service starts only on a freshly constructed instance, and after the
\* handler the construction is always tried again; each try ends either in a
\* fetch with the fresh client or, when the construction raises, in the
\* handler once more.
C4_HandlerRestarts ==
    /\ [][(raised' # raised /\ raised' # "none") => pc' = "handler"]_vars
    /\ [][pc = "handler" => pc' \in {"handler", "construct"}]_vars
    /\ [][(pc = "construct" /\ pc' = "get_clusters") => client' = "fresh"]_vars
    /\ (pc = "handler" ~> pc = "construct")
    /\ ((pc = "construct" /\ raised = "none")
            ~> (FetchingFresh \/ (pc = "handler" /\ raised = "construct")))

C4_Witness ==
    /\ pc = "handler"
    /\ raised = "run_service"
    /\ client = "used"
    /\ store # {}

\* C5 as claimed: with a backup destination, events.json of the cluster in
\* process holds the event list as fetched.
C5_BackupUntruncated ==
    (backup_destination /\ pc = "loop")
        => backup[clusters[i].id].events = JsonFile(fetched)

\* C5 as amended: with a backup destination, the backup of the cluster in
\* process holds the event list after truncation (the first MAX_EVENTS events
\* as fetched, or all of them when there are at most MAX_EVENTS) and the
\* metadata of this cycle, whatever was backed up before.
C5_BackupTruncated ==
    (backup_destination /\ pc = "loop")
        => LET b == backup[clusters[i].id]
           IN  /\ b.present
               /\ b.events =
                     JsonFile(SubSeq(fetched, 1, Min({Len(fetched), MAX_EVENTS})))
               /\ b.metadata = JsonFile(metadata_json)

C5_Witness ==
    /\ backup_destination
    /\ pc = "loop"
    /\ Len(fetched) > MAX_EVENTS

\* C6: when more than MAX_EVENTS events were fetched for a cluster, the list
\* that elastefy_events iterates has exactly MAX_EVENTS events, the first
\* MAX_EVENTS as fetched, and log_doc is only called for those.
C6_Truncation ==
    Len(fetched) > MAX_EVENTS
        => /\ Len(event_list) = MAX_EVENTS
           /\ \A j \in 1..MAX_EVENTS : event_list[j] = fetched[j]
           /\ k <= MAX_EVENTS
           /\ last.op = "create"
                => (last.pos <= MAX_EVENTS /\ last.event = fetched[last.pos])

C6_Witness ==
    /\ Len(fetched) > MAX_EVENTS
    /\ last.op = "create"
    /\ last.ret = "created"
    /\ k = 0

\* what get_no_name_message returns in log_scrap.py for the messages and the
\* name lists of the two clusters
ExpectedNoName(message, names) ==
    IF message = CollisionMessage
    THEN CollisionMessage
    ELSE IF message = MsgHostFailed /\ names = <<NodeName>>
    THEN NoNameFailedA
    ELSE IF message = MsgHostUuid /\ names = <<NodeName>>
    THEN NoNameUuidA
    ELSE IF message = MsgHostFailed /\ names = <<HostA456, HostWord>>
    THEN NoNameFailedB
    ELSE NoNameUuidB

\* C7 as claimed: for "Host abc123: something failed for node-1" and the names
\* ["node-1"], no_name_message is "something failed for Name".
C7_ExampleAsClaimed ==
    (last.op = "create" /\ last.event.message = MsgHostFailed
        /\ event_names = <<NodeName>>)
        => last.body.no_name_message = NoNameClaimed

\* C7 as amended: names are replaced first (in the given order), then UUIDs,
\* then the leading "Host <token>:" is removed and nothing else, so that for
\* "Host abc123: something failed for node-1" and ["node-1"] the result is
\* " something failed for Name", with the space that followed the prefix.
C7_Scrub ==
    last.op = "create"
        => last.body.no_name_message =
              ExpectedNoName(last.event.message, event_names)

C7_Witness ==
    /\ last.op = "create"
    /\ last.event.message = MsgHostFailed
    /\ event_names = <<NodeName>>

\* C8: when log_doc reports a conflict for an event, every older event of the
\* list that is not skippable is in the store.
C8_ConflictImpliesOlderStored ==
    (last.op = "create" /\ last.ret = "None")
        => \A j \in 1..(last.pos - 1) :
              ~is_event_skippable(event_list[j])
                 => get_doc_id(event_list[j]) \in StoreIds(store)

\* C9: the document handed to log_doc is the processed metadata, updated with
\* the no_name_message of the event, updated with the event.
C9_DocumentOfOneEvent ==
    last.op = "create"
        => last.body =
              Update(Update(process_metadata(metadata_json),
                            [no_name_message |->
                                get_no_name_message(last.event.message, event_names)]),
                     last.event)

\* C10 as claimed: after an empty cluster list run_service leaves its loop:
\* the next step is the construction of a new ScrapeEvents in main, no fetch
\* comes before it, and the fetch with the new instance eventually happens.
C10_AsClaimed ==
    /\ [][pc = "sleep_break" => pc' \in {"sleep_break", "construct"}]_vars
    /\ [][(pc = "construct" /\ pc' = "get_clusters") => client' = "fresh"]_vars
    /\ (pc = "sleep_break" ~> FetchingFresh)

\* C10 as amended: after an empty cluster list run_service leaves its loop:
\* the next step is the construction of a new ScrapeEvents in main, no fetch
\* comes before it, and the construction is eventually tried; the fetch with
\* the new instance follows unless the construction raises, which leads to
\* main's handler.
C10_EmptyListRestarts ==
    /\ [][pc = "sleep_break" => pc' \in {"sleep_break", "construct"}]_vars
    /\ [][(pc = "construct" /\ pc' = "get_clusters") => client' = "fresh"]_vars
    /\ (pc = "sleep_break" ~> pc = "construct")
    /\ (pc = "sleep_break"
            ~> (FetchingFresh \/ (pc = "handler" /\ raised = "construct")))

C10_Witness == pc = "sleep_break" /\ clusters = <<>> /\ client = "used"

TypeOK == pc \in {"construct", "get_clusters", "sleep_break", "process_cluster",
                  "loop", "handler"}
====
